---- MODULE Spec2Model ----
(***************************************************************************)
(* LNPBP-4 multi-protocol commitment tree (commit_verify/src/mpc/tree.rs): *)
(* MerkleTree::try_commit (the depth/cofactor search), protocol_id_pos,    *)
(* MerkleTree::root, Conceal, the commitment encoding and commitment id.   *)
(*                                                                         *)
(* The widths of the source's number types are reduced so that the search  *)
(* space can be enumerated, keeping their order:                           *)
(*   u5::MAX            31     ->  U5_MAX                                  *)
(*   COFACTOR_ATTEMPTS  500    ->  COFACTOR_ATTEMPTS   (< 2^(U5_MAX-1))    *)
(*   SmallVec bound     65535  ->  SMALL_VEC_MAX       (< 2^U5_MAX)        *)
(*   u32                2^32   ->  2^(U5_MAX+1)                            *)
(*   ProtocolId         32 bytes -> 2 bytes (little-endian number)         *)
(***************************************************************************)
EXTENDS Integers, Sequences, FiniteSets, TLC

\* ---------------------------------------------------------------- bounds

\* Largest value of the depth type (u5::MAX, 31 in the source).
U5_MAX == 3

\* Cofactor variants tried per depth (tree.rs:34, 500 in the source).
COFACTOR_ATTEMPTS == 2

\* Largest length of a SmallVec (u16::MAX, 65535 in the source).
SMALL_VEC_MAX == 5

\* Largest number of messages of an enumerated source (the oversized source
\* apart).
MaxMsgs == 3

\* Entropy values are 0..MaxEntropy (u64 in the source).
MaxEntropy == 1

\* ------------------------------------------------------------ input sets

Entropies == 0..MaxEntropy

Messages == {"ma", "mb"}

\* Protocol ids, as little-endian byte strings <<b0, b1>>.  0 and 168 agree
\* modulo 2, 3, 4, 6, 7 and 8; 0 and 56 modulo 2, 4, 7 and 8 but not 3 or 6;
\* <<0, 1>> is 256, which sorts before <<1, 0>> as a byte string.
PidPool == {<<0, 0>>, <<1, 0>>, <<3, 0>>, <<56, 0>>, <<168, 0>>, <<0, 1>>}

\* Option<u64>: <<>> is None, <<e>> is Some(e).
OptEntropies == {<<>>} \cup {<<e>> : e \in Entropies}

\* A source with more messages than 2^U5_MAX.
Oversized == [p \in {<<i, 0>> : i \in 0..(2 ^ U5_MAX)} |-> "ma"]

MessageMaps ==
    UNION {[S -> Messages] : S \in {T \in SUBSET PidPool : Cardinality(T) <= MaxMsgs}}
        \cup {Oversized}

\* MultiSource
MultiSources ==
    [messages : MessageMaps, min_depth : 0..U5_MAX, static_entropy : OptEntropies]

\* ------------------------------------------------------------- constants

MERKLE_LNPBP4_TAG == "MERKLE_LNPBP4_TAG"

TAG == "urn:lnpbp:lnpbp0004:tree:v01#23A"

\* ------------------------------------------------------ external hashing

\* MerkleNode::merklize, collision-free: the node stands for what it hashes.
Merklize(tag, leaves) == <<"node", tag, leaves>>

\* Tagged SHA-256, collision-free.
TagHash(tag, data) == <<"hash", tag, data>>

\* An expect() that failed.
Panic == <<"panic">>

\* -------------------------------------------------------- pure functions

Min(a, b) == IF a < b THEN a ELSE b

Max(a, b) == IF a > b THEN a ELSE b

\* u32::saturating_sub
SaturatingSub(a, b) == IF a > b THEN a - b ELSE 0

\* u256::from_le_bytes
FromLeBytes(bytes) == bytes[1] + 256 * bytes[2]

\* The modulus of the reduction: width.saturating_sub(cofactor).max(1).
Modulus(cofactor, width) == Max(SaturatingSub(width, cofactor), 1)

\* rem.low_u64() as u32, u32 being U5_MAX + 1 bits wide.
AsU32(n) == n % (2 ^ (U5_MAX + 1))

protocol_id_pos(protocol_id, cofactor, width) ==
    AsU32(FromLeBytes(protocol_id) % Modulus(cofactor, width))

\* MerkleTree::width, and the width computed in the search loop.
Width(depth) == 2 ^ depth

\* Ord of ProtocolId (a byte array): lexicographic.
PidLess(p, q) == p[1] < q[1] \/ (p[1] = q[1] /\ p[2] < q[2])

\* The keys of a BTreeMap<ProtocolId, _> in iteration order.
RECURSIVE SortedPids(_)
SortedPids(S) ==
    IF S = {} THEN <<>>
    ELSE LET p == CHOOSE x \in S : \A y \in S \ {x} : PidLess(x, y)
         IN  <<p>> \o SortedPids(S \ {p})

\* BTreeMap::insert(pos, entry).is_none()
InsertIsNoneMut(map, pos) == TRUE
InsertIsNone(map, pos) == pos \notin DOMAIN map

\* source.messages.iter().all(|..| map.insert(pos, ..).is_none()) from the
\* protocol ids `keys` on: all() stops at the first insert that finds its
\* position taken.  evals counts the calls of protocol_id_pos.
RECURSIVE AllInsert(_, _, _, _, _, _)
AllInsert(keys, messages, cofactor, width, map, evals) ==
    IF keys = <<>> THEN [ok |-> TRUE, map |-> map, evals |-> evals]
    ELSE LET protocol == Head(keys)
             pos == protocol_id_pos(protocol, cofactor, width)
             entry == <<protocol, messages[protocol]>>
             inserted == [p \in DOMAIN map \cup {pos} |->
                             IF p = pos THEN entry ELSE map[p]]
         IN  IF InsertIsNone(map, pos)
             THEN AllInsert(Tail(keys), messages, cofactor, width, inserted, evals + 1)
             ELSE [ok |-> FALSE, map |-> inserted, evals |-> evals + 1]

\* One pass of the cofactor loop's body, from map.clear() on.
Attempt(messages, cofactor, width) ==
    AllInsert(SortedPids(DOMAIN messages), messages, cofactor, width, <<>>, 0)

\* The last cofactor of the range 0..=(prev_width.min(COFACTOR_ATTEMPTS)).
CofactorLimitMut(prev_width) == prev_width
CofactorLimit(prev_width) == Min(prev_width, COFACTOR_ATTEMPTS)

\* prev_width = width, at the end of the loop body.
PrevWidthStuck(width) == 1
PrevWidthAfter(width) == width

\* u5::checked_add(1): <<>> is None.
CheckedAddEarly(depth) == IF depth + 1 >= U5_MAX THEN <<>> ELSE <<depth + 1>>
CheckedAddWrapping(depth) == <<(depth + 1) % (U5_MAX + 1)>>
CheckedAdd1(depth) == IF depth + 1 > U5_MAX THEN <<>> ELSE <<depth + 1>>

\* The first two returns of try_commit.
IsEmptyMut(source) == DOMAIN source.messages = {}
IsEmpty(source) == source.min_depth = 0 /\ DOMAIN source.messages = {}

IsTooMany(source) == Cardinality(DOMAIN source.messages) > 2 ^ U5_MAX

\* The values `entropy` can take: the static entropy, or what thread_rng()
\* draws with the `rand` feature; without either the expect() panics.
EntropyChoicesMut(source, rand_feature) == Entropies
EntropyChoices(source, rand_feature) ==
    IF source.static_entropy # <<>> THEN {source.static_entropy[1]}
    ELSE IF rand_feature THEN Entropies
    ELSE {}

\* ------------------------------------------------------------ MerkleTree

NoTree == [depth |-> 0, entropy |-> 0, cofactor |-> 0, messages |-> <<>>, map |-> <<>>]

\* Result<MerkleTree, Error>, or a panic; "None" before the call returns.
Pending == [kind |-> "None", err |-> "", count |-> 0, tree |-> NoTree]
Ok(tree) == [kind |-> "Ok", err |-> "", count |-> 0, tree |-> tree]
Err(err, count) == [kind |-> "Err", err |-> err, count |-> count, tree |-> NoTree]
Panicked == [kind |-> "Panic", err |-> "", count |-> 0, tree |-> NoTree]

\* The leaf of position pos in MerkleTree::root.
LeafAtMut(tree, pos) ==
    IF pos \in DOMAIN tree.map
    THEN <<"inhabited", tree.map[pos][1], tree.map[pos][2]>>
    ELSE <<"entropy", 0, pos>>
LeafAt(tree, pos) ==
    IF pos \in DOMAIN tree.map
    THEN <<"inhabited", tree.map[pos][1], tree.map[pos][2]>>
    ELSE <<"entropy", tree.entropy, pos>>

\* The leaves root() collects, positions 0..width-1 being indices 1..width.
Leaves(tree) == [i \in 1..Width(tree.depth) |-> LeafAt(tree, i - 1)]

\* MerkleTree::root: SmallVec::try_from_iter(..).expect("u16-bound size").
root(tree) ==
    IF Width(tree.depth) > SMALL_VEC_MAX THEN Panic
    ELSE Merklize(MERKLE_LNPBP4_TAG, Leaves(tree))

conceal(tree) == root(tree)

\* The strict encoding of every field of the tree.
commit_encode_unconcealed(tree) ==
    <<"tree", tree.depth, tree.entropy, tree.cofactor, tree.messages, tree.map>>

\* #[commit_encode(conceal, strategy = strict)]: the strict encoding of the
\* concealed value, a MerkleNode, which encodes as its 32 bytes.
commit_encode(tree) == conceal(tree)

\* CommitmentId::commitment_id: the TAG-tagged hash of the commit encoding.
commitment_id(tree) ==
    IF commit_encode(tree) = Panic THEN Panic
    ELSE TagHash(TAG, commit_encode(tree))

\* ----------------------------------------------------------------- state

VARIABLES
    source,      \* the MultiSource both invocations are given
    rand,        \* whether the crate is built with the `rand` feature
    call,        \* which invocation of try_commit this is: 1 or 2
    pc,          \* "idle", "loop", "returned", "observed", "mutated"
    entropy,     \* try_commit's locals
    depth,
    prev_width,
    cofactor,
    evals,       \* calls of protocol_id_pos made by this invocation
    result,      \* what this invocation returned
    first,       \* what the first invocation returned
    obs,         \* root(), conceal() and commitment_id() of the returned tree
    mutated      \* the tree with its entropy replaced, and its commitment id

vars == <<source, rand, call, pc, entropy, depth, prev_width, cofactor, evals,
          result, first, obs, mutated>>

NoObs == [root |-> <<>>, conceal |-> <<>>, enc |-> <<>>, id |-> <<>>]

NoMutated == [tree |-> NoTree, id |-> <<>>]

msg_count == Cardinality(DOMAIN source.messages)

Init ==
    /\ source \in MultiSources
    /\ rand \in BOOLEAN
    /\ call = 1
    /\ pc = "idle"
    /\ entropy = 0
    /\ depth = 0
    /\ prev_width = 1
    /\ cofactor = 0
    /\ evals = 0
    /\ result = Pending
    /\ first = Pending
    /\ obs = NoObs
    /\ mutated = NoMutated

\* try_commit up to the search loop: the Empty and TooManyMessages returns,
\* the entropy, and the loop's initial depth and prev_width.
Begin ==
    /\ pc = "idle"
    /\ evals' = 0
    /\ cofactor' = 0
    /\ prev_width' = 1
    /\ depth' = source.min_depth
    /\ IF IsEmpty(source)
       THEN /\ result' = Err("Empty", 0)
            /\ pc' = "returned"
            /\ entropy' = entropy
       ELSE IF IsTooMany(source)
       THEN /\ result' = Err("TooManyMessages", msg_count)
            /\ pc' = "returned"
            /\ entropy' = entropy
       ELSE IF EntropyChoices(source, rand) = {}
       THEN /\ result' = Panicked
            /\ pc' = "returned"
            /\ entropy' = entropy
       ELSE /\ entropy' \in EntropyChoices(source, rand)
            /\ result' = Pending
            /\ pc' = "loop"
    /\ UNCHANGED <<source, rand, call, first, obs, mutated>>

\* One cofactor of the for loop at the current depth.
TryCofactor ==
    /\ pc = "loop"
    /\ Width(depth) >= msg_count
    /\ cofactor <= CofactorLimit(prev_width)
    /\ LET try == Attempt(source.messages, cofactor, Width(depth))
       IN  /\ evals' = evals + try.evals
           /\ IF try.ok
              THEN /\ result' = Ok([depth |-> depth, entropy |-> entropy,
                                    cofactor |-> cofactor,
                                    messages |-> source.messages,
                                    map |-> try.map])
                   /\ pc' = "returned"
                   /\ cofactor' = cofactor
              ELSE /\ cofactor' = cofactor + 1
                   /\ UNCHANGED <<result, pc>>
    /\ UNCHANGED <<source, rand, call, entropy, depth, prev_width, first, obs, mutated>>

\* The end of the loop body: the width is too small for the messages, or the
\* cofactors of this depth are used up.
NextDepth ==
    /\ pc = "loop"
    /\ \/ Width(depth) < msg_count
       \/ cofactor > CofactorLimit(prev_width)
    /\ prev_width' = PrevWidthAfter(Width(depth))
    /\ cofactor' = 0
    /\ IF CheckedAdd1(depth) = <<>>
       THEN /\ result' = Err("CantFitInMaxSlots", msg_count)
            /\ pc' = "returned"
            /\ depth' = depth
       ELSE /\ depth' = CheckedAdd1(depth)[1]
            /\ UNCHANGED <<result, pc>>
    /\ UNCHANGED <<source, rand, call, entropy, evals, first, obs, mutated>>

\* The caller invokes try_commit again on the same source.
SecondCall ==
    /\ pc = "returned"
    /\ call = 1
    /\ result.kind # "Panic"
    /\ first' = result
    /\ call' = 2
    /\ pc' = "idle"
    /\ result' = Pending
    /\ UNCHANGED <<source, rand, entropy, depth, prev_width, cofactor, evals, obs, mutated>>

\* The caller takes the root, the concealed form, the commit encoding and the
\* commitment id of the tree it got.
Observe ==
    /\ pc = "returned"
    /\ call = 2
    /\ result.kind = "Ok"
    /\ obs' = [root |-> root(result.tree), conceal |-> conceal(result.tree),
               enc |-> commit_encode(result.tree), id |-> commitment_id(result.tree)]
    /\ pc' = "observed"
    /\ UNCHANGED <<source, rand, call, entropy, depth, prev_width, cofactor, evals,
                   result, first, mutated>>

\* The entropy field alone is changed and the commitment id taken again.
SetEntropy ==
    /\ pc = "observed"
    /\ obs.id # Panic
    /\ \E e \in Entropies \ {result.tree.entropy} :
          LET t == [result.tree EXCEPT !.entropy = e]
          IN  mutated' = [tree |-> t, id |-> commitment_id(t)]
    /\ pc' = "mutated"
    /\ UNCHANGED <<source, rand, call, entropy, depth, prev_width, cofactor, evals,
                   result, first, obs>>

Next ==
    \/ Begin
    \/ TryCofactor
    \/ NextDepth
    \/ SecondCall
    \/ Observe
    \/ SetEntropy

Spec == Init /\ [][Next]_vars

\* ---------------------------------------------------------------- claims

\* What the claims speak of, stated over the source alone.

Pids == DOMAIN source.messages

Returned == pc \in {"returned", "observed", "mutated"}

\* No two protocol ids of the source share a position at (d, c).
CollisionFree(d, c) ==
    \A p, q \in Pids :
        p # q => protocol_id_pos(p, c, 2 ^ d) # protocol_id_pos(q, c, 2 ^ d)

\* prev_width at depth d: 1 at the starting depth, 2^(d-1) later.
PrevWidthAt(d) == IF d = source.min_depth THEN 1 ELSE 2 ^ (d - 1)

\* The (depth, cofactor) pairs of the search.
SearchPairs ==
    {pr \in (source.min_depth..U5_MAX) \X (0..COFACTOR_ATTEMPTS) :
        /\ 2 ^ pr[1] >= msg_count
        /\ pr[2] <= PrevWidthAt(pr[1])}

FreePairs == {pr \in SearchPairs : CollisionFree(pr[1], pr[2])}

\* The search order: by depth, then by cofactor.
Before(a, b) == a[1] < b[1] \/ (a[1] = b[1] /\ a[2] < b[2])

WithinLimit == msg_count <= 2 ^ U5_MAX

EntropyAvailable == source.static_entropy # <<>> \/ rand

CantFit == Err("CantFitInMaxSlots", msg_count)

\* C1 as stated: for a non-empty message set within the size limit try_commit
\* never returns an Error.
C1_NeverError ==
    (Returned /\ msg_count >= 1 /\ WithinLimit) => result.kind # "Err"

\* C1 amended: for a non-empty message set within the size limit, and an
\* entropy at hand, try_commit returns Ok(tree) when some pair of the search
\* is collision-free and Err(CantFitInMaxSlots(n)) when none is; it returns
\* neither Empty nor TooManyMessages.
C1_OkOrCantFit ==
    (Returned /\ msg_count >= 1 /\ WithinLimit /\ EntropyAvailable) =>
        IF FreePairs # {} THEN result.kind = "Ok" ELSE result = CantFit

C1_Witness ==
    /\ pc = "returned"
    /\ msg_count = MaxMsgs
    /\ result.kind = "Ok"
    /\ result.tree.depth > source.min_depth

\* C2: a returned tree has width 2^depth >= n, the source's messages, and a
\* map of exactly n entries, each (pid, msg) of the source at position
\* protocol_id_pos(pid, cofactor, width), no position being shared.
C2_TreeStructure ==
    result.kind = "Ok" =>
        LET t == result.tree
            w == 2 ^ t.depth
            at(p) == protocol_id_pos(p, t.cofactor, w)
        IN  /\ Width(t.depth) = w
            /\ w >= msg_count
            /\ t.messages = source.messages
            /\ Cardinality(DOMAIN t.map) = msg_count
            /\ \A p \in Pids :
                   /\ at(p) \in DOMAIN t.map
                   /\ t.map[at(p)] = <<p, source.messages[p]>>
            /\ \A p, q \in Pids : p # q => at(p) # at(q)

C2_Witness ==
    /\ pc = "returned"
    /\ result.kind = "Ok"
    /\ msg_count = MaxMsgs
    /\ result.tree.cofactor > 0
    /\ \E p, q \in Pids : source.messages[p] # source.messages[q]

\* C3: try_commit returns Err(Empty) exactly when the source has no message
\* and min_depth = 0, whatever else holds of the source and the build, and
\* then it returns no tree.
C3_EmptyIff ==
    Returned =>
        /\ (result.kind = "Err" /\ result.err = "Empty")
               <=> (msg_count = 0 /\ source.min_depth = 0)
        /\ (msg_count = 0 /\ source.min_depth = 0) => result.tree = NoTree

C3_Witness ==
    /\ pc = "returned"
    /\ result = Err("Empty", 0)
    /\ ~EntropyAvailable
    /\ first = Err("Empty", 0)

C5_EntropyChangesId ==
    pc = "mutated" => mutated.id # obs.id

\* C5 amended: changing only the entropy of a returned tree whose commitment
\* id is defined changes the commitment id exactly when the tree has an
\* uninhabited slot.
C5_EntropyChangesIdIffPlaceholder ==
    pc = "mutated" =>
        /\ mutated.tree = [result.tree EXCEPT !.entropy = mutated.tree.entropy]
        /\ mutated.tree.entropy # result.tree.entropy
        /\ (mutated.id # obs.id)
               <=> (Cardinality(DOMAIN result.tree.map) < 2 ^ result.tree.depth)

C5_Witness ==
    /\ pc = "mutated"
    /\ msg_count >= 2
    /\ Cardinality(DOMAIN result.tree.map) < 2 ^ result.tree.depth
    /\ mutated.id # obs.id

\* C6: with a static entropy, two invocations on the same source return the
\* same result, and a returned tree's entropy is the static entropy.
C6_Deterministic ==
    (call = 2 /\ Returned /\ source.static_entropy # <<>>) =>
        /\ result = first
        /\ result.kind = "Ok" => result.tree.entropy = source.static_entropy[1]

C6_Witness ==
    /\ call = 2
    /\ pc = "returned"
    /\ source.static_entropy = <<MaxEntropy>>
    /\ rand
    /\ result.kind = "Ok"
    /\ msg_count >= 2

\* C7: the (depth, cofactor) of a returned tree is collision-free and in the
\* search range, and no pair before it in the search order is collision-free.
C7_FirstFreePair ==
    result.kind = "Ok" =>
        LET got == <<result.tree.depth, result.tree.cofactor>>
        IN  /\ got \in FreePairs
            /\ \A pr \in FreePairs : ~Before(pr, got)

C7_Witness ==
    /\ pc = "returned"
    /\ result.kind = "Ok"
    /\ result.tree.depth > source.min_depth
    /\ result.tree.cofactor = COFACTOR_ATTEMPTS
    /\ msg_count >= 2

\* C8 as stated: try_commit returns Err(CantFitInMaxSlots(n)) exactly when the
\* input is neither Empty nor TooManyMessages and no pair of the search is
\* collision-free.
C8_CantFitIff ==
    Returned =>
        (result = CantFit
            <=> (~(msg_count = 0 /\ source.min_depth = 0) /\ WithinLimit
                    /\ FreePairs = {}))

\* C8 amended: ... and an entropy is at hand (a static entropy, or the rand
\* feature); the error is returned from depth U5_MAX with the message count.
C8_CantFitIffWithEntropy ==
    Returned =>
        /\ result = CantFit
               <=> (~(msg_count = 0 /\ source.min_depth = 0) /\ WithinLimit
                       /\ EntropyAvailable /\ FreePairs = {})
        /\ result = CantFit => (depth = U5_MAX /\ result.count = msg_count)

C8_Witness ==
    /\ pc = "returned"
    /\ result = CantFit
    /\ msg_count = 2
    /\ source.min_depth = U5_MAX
    /\ \A p, q \in Pids : p = q \/ FromLeBytes(p) # FromLeBytes(q)

\* The search loop's steps left, at most: the depths above this one, each
\* with its cofactors and its step to the next depth, and the cofactors
\* left at this depth.
SearchRank ==
    (U5_MAX - depth) * (COFACTOR_ATTEMPTS + 2) + (COFACTOR_ATTEMPTS + 1 - cofactor)

\* C9: the search loop ends (each of its steps returns or lowers SearchRank,
\* a natural number), having called
\* protocol_id_pos at most U5_MAX x (COFACTOR_ATTEMPTS + 1) x n times; no
\* depth has more than COFACTOR_ATTEMPTS + 1 cofactors tried and depth stays
\* within U5_MAX.
C9_SearchBounded ==
    /\ [](evals <= U5_MAX * (COFACTOR_ATTEMPTS + 1) * msg_count)
    /\ [](depth <= U5_MAX /\ cofactor <= COFACTOR_ATTEMPTS + 1)
    /\ [](pc = "loop" => SearchRank >= 0)
    /\ [][pc = "loop" =>
             \/ pc' = "returned"
             \/ (pc' = "loop" /\ SearchRank' < SearchRank /\ evals' >= evals)]_vars

C9_Witness ==
    /\ pc = "returned"
    /\ result = CantFit
    /\ source.min_depth = 0
    /\ msg_count = MaxMsgs
    /\ evals > U5_MAX * (COFACTOR_ATTEMPTS + 1)

\* C10 as stated: root() of a returned tree completes and merklizes exactly
\* width leaves in position order, leaf p being Inhabited(pid, msg) where the
\* map has (pid, msg) at p and Entropy(entropy, p) elsewhere, each map entry
\* once.
C10_RootCompletes ==
    pc = "observed" =>
        LET t == result.tree
            w == 2 ^ t.depth
            leaf(p) == IF p \in DOMAIN t.map
                       THEN <<"inhabited", t.map[p][1], t.map[p][2]>>
                       ELSE <<"entropy", t.entropy, p>>
        IN  /\ obs.root = Merklize(MERKLE_LNPBP4_TAG, [i \in 1..w |-> leaf(i - 1)])
            /\ \A p \in DOMAIN t.map : p < Max(w - t.cofactor, 1) /\ p < w

====
